---------------------------- MODULE Spec2Model ----------------------------
(***************************************************************************)
(* State-machine model of the image viewer/editor MainWindow               *)
(* (appImageViewer1O.py, extended by appImageViewer2O.py) and of its       *)
(* MyGraphicsView.                                                         *)
(*                                                                         *)
(* Images are small pixel matrices.  A QPixmap / QImage is a "raster": a   *)
(* sequence of rows of <<b, g, r>> pixels, the empty sequence being the    *)
(* null pixmap / null image.  A numpy array is a record                    *)
(*   [ndim, ch, rows]: ndim = 1 is np.array([]) (size 0), ndim = 2 a gray  *)
(* H x W array of numbers, ndim = 3 an H x W x ch array of ch-tuples.      *)
(*                                                                         *)
(* Python names are references: self.prevPixmap = self.pixmap makes both   *)
(* names denote one QPixmap object.  `aliased' records whether             *)
(* self.pixmap and self.prevPixmap are the same object, which matters for  *)
(* the in-place QPixmap.load of openFile.                                  *)
(***************************************************************************)
EXTENDS Integers, Sequences, FiniteSets, TLC

\* ------------------------------------------------------------------ bounds
\* number of image-producing operations explored in one run
MaxEdits == 1

\* ------------------------------------------------------- program constants
\* cropEnd: a rectangle is used only when w > 5 and h > 5
CropMin == 5
\* blackDots: grid step of the dots and side of one dot
DotStep == 10
DotSize == 3
\* detectCornersHarris: radius of the circle drawn on a corner
CornerRadius == 5

\* ------------------------------------------------------------ basic values
Max2(a, b) == IF a >= b THEN a ELSE b
Min2(a, b) == IF a <= b THEN a ELSE b
Abs(a) == IF a >= 0 THEN a ELSE -a

NullRaster == << >>
IsNull(p) == p = << >>
Height(p) == Len(p)
Width(p) == IF p = << >> THEN 0 ELSE Len(p[1])

\* np.array([]) : 1-D, size 0
EmptyArray == [ndim |-> 1, ch |-> 0, rows |-> << >>]
\* A.shape[0], A.shape[1], A.size
Shape0(A) == IF A.ndim = 1 THEN 0 ELSE Len(A.rows)
Shape1(A) == IF A.ndim = 1 \/ A.rows = << >> THEN 0 ELSE Len(A.rows[1])
Size(A) == IF A.ndim = 1 THEN 0
           ELSE Shape0(A) * Shape1(A) * (IF A.ndim = 3 THEN A.ch ELSE 1)

\* a sequence given as a function, laid out as a tuple
Tup(f) == f \o << >>
\* the h x w matrix (sequence of rows) whose element (r, c) is F(r, c)
Matrix(h, w, F(_, _)) == Tup([r \in 1..h |-> Tup([c \in 1..w |-> F(r, c)])])

MapPx(rows, F(_)) ==
    Matrix(Len(rows), Width(rows), LAMBDA r, c : F(rows[r][c]))

\* ------------------------------------------------- image format conversions
\* QImage.allGray(): every pixel has r = g = b
allGray(img) ==
    \A r \in 1..Len(img) : \A c \in 1..Len(img[r]) :
        img[r][c][1] = img[r][c][2] /\ img[r][c][2] = img[r][c][3]

\* files.myImageTools.qimage2np: a 32-bit QImage becomes an H x W x 4 BGRA
\* array (alpha 255), a null image an empty array
qimage2np(img) ==
    IF IsNull(img) THEN EmptyArray
    ELSE [ndim |-> 3, ch |-> 4,
          rows |-> MapPx(img, LAMBDA p : <<p[1], p[2], p[3], 255>>)]

\* files.myImageTools.np2qimage: a 2-D array becomes a gray image, a 3-D
\* array with 3 or 4 channels an RGB32 image of its B, G, R channels;
\* anything else gives a null QImage
np2qimage(B) ==
    IF B.ndim = 2 /\ Size(B) > 0
        THEN MapPx(B.rows, LAMBDA v : <<v, v, v>>)
    ELSE IF B.ndim = 3 /\ B.ch \in {3, 4} /\ Size(B) > 0
        THEN MapPx(B.rows, LAMBDA p : <<p[1], p[2], p[3]>>)
    ELSE NullRaster

\* A[:, :, 0]
Channel0(A) == [ndim |-> 2, ch |-> 0, rows |-> MapPx(A.rows, LAMBDA p : p[1])]

\* ------------------------------------------------------------ the files
\* image files the user can open; "" is a cancelled dialog, "missing.png"
\* a file that does not exist
ImgH == 7
ImgW == 8

ColorFile ==
    Matrix(ImgH, ImgW, LAMBDA r, c :
        <<(r * 30) % 256, (c * 30) % 256, ((r + c) * 15) % 256>>)

\* a smaller gray picture inside a black frame (1 row on top, 1 below,
\* 2 columns on the left, 1 on the right)
FramedH == ImgH - 3
FramedW == ImgW - 2
FramedFile ==
    Matrix(FramedH, FramedW, LAMBDA r, c :
        IF r \in 2..(FramedH - 1) /\ c \in 3..(FramedW - 1)
        THEN <<40 + 20 * r + 10 * c, 40 + 20 * r + 10 * c, 40 + 20 * r + 10 * c>>
        ELSE <<0, 0, 0>>)

FileNames == {"", "missing.png", "color.png", "framed.png"}

\* QPixmap.load: the picture in the file, or a null pixmap when the file
\* does not exist or has an unknown format
load(fName) ==
    CASE fName = "color.png" -> ColorFile
      [] fName = "framed.png" -> FramedFile
      [] OTHER -> NullRaster

\* ------------------------------------------------- numpy / OpenCV operators
SetMax(S) == CHOOSE m \in S : \A x \in S : x <= m
SetMin(S) == CHOOSE m \in S : \A x \in S : m <= x

\* the largest and the smallest of the first n elements of sequence q
RECURSIVE SeqMax(_, _)
SeqMax(q, n) ==
    IF n = 1 THEN q[1]
    ELSE LET m == SeqMax(q, n - 1) IN IF q[n] > m THEN q[n] ELSE m
RECURSIVE SeqMin(_, _)
SeqMin(q, n) ==
    IF n = 1 THEN q[1]
    ELSE LET m == SeqMin(q, n - 1) IN IF q[n] < m THEN q[n] ELSE m

\* the channels of an array as 2-D matrices: one for a 2-D array
Planes(A) ==
    IF A.ndim = 2 THEN << A.rows >>
    ELSE Tup([k \in 1..A.ch |-> MapPx(A.rows, LAMBDA p : p[k])])

\* the array of given ndim whose channels are the matrices pl
FromPlanes(ndim, pl) ==
    IF ndim = 2 THEN [ndim |-> 2, ch |-> 0, rows |-> pl[1]]
    ELSE [ndim |-> 3, ch |-> Len(pl),
          rows |-> Matrix(Len(pl[1]), Width(pl[1]), LAMBDA r, c :
                      Tup([k \in 1..Len(pl) |-> pl[k][r][c]]))]

\* the numbers in a matrix
Values(M) == {M[r][c] : r \in 1..Len(M), c \in 1..(IF M = << >> THEN 0 ELSE Len(M[1]))}

\* np.max and np.min over the matrices pl
ArrayMax(pl) ==
    LET rowMax(M) == Tup([r \in 1..Len(M) |-> SeqMax(M[r], Len(M[r]))])
        plMax == Tup([k \in 1..Len(pl) |-> SeqMax(rowMax(pl[k]), Len(pl[k]))])
    IN SeqMax(plMax, Len(pl))
ArrayMin(pl) ==
    LET rowMin(M) == Tup([r \in 1..Len(M) |-> SeqMin(M[r], Len(M[r]))])
        plMin == Tup([k \in 1..Len(pl) |-> SeqMin(rowMin(pl[k]), Len(pl[k]))])
    IN SeqMin(plMin, Len(pl))

\* cv2.BORDER_REFLECT_101 (the default border): index i of 1..n
Reflect(i, n) ==
    IF n = 1 THEN 1
    ELSE IF i < 1 THEN 2 - i
    ELSE IF i > n THEN 2 * n - i
    ELSE i

\* correlation of matrix M with a 3 x 3 kernel K anchored at its centre
Correlate3(M, K) ==
    LET h == Len(M)
        w == Len(M[1])
    IN Matrix(h, w, LAMBDA r, c :
          LET at(dr, dc) == M[Reflect(r + dr, h)][Reflect(c + dc, w)]
          IN   K[1][1] * at(-1, -1) + K[1][2] * at(-1, 0) + K[1][3] * at(-1, 1)
             + K[2][1] * at(0, -1)  + K[2][2] * at(0, 0)  + K[2][3] * at(0, 1)
             + K[3][1] * at(1, -1)  + K[3][2] * at(1, 0)  + K[3][3] * at(1, 1))

\* the kernels of cv2.Sobel(dx=1, dy=0) for ksize 1 and 3; dy is the transpose
SobelX(ksize) ==
    IF ksize = 1 THEN << <<0, 0, 0>>, <<-1, 0, 1>>, <<0, 0, 0>> >>
    ELSE << <<-1, 0, 1>>, <<-2, 0, 2>>, <<-1, 0, 1>> >>
Transpose3(K) == Matrix(3, 3, LAMBDA i, j : K[j][i])

\* largest k with k * k <= x, for 0 <= x <= 255 * 255
RECURSIVE IsqrtIn(_, _, _)
IsqrtIn(lo, hi, x) ==
    IF lo = hi THEN lo
    ELSE LET mid == (lo + hi + 1) \div 2
         IN IF mid * mid <= x THEN IsqrtIn(mid, hi, x) ELSE IsqrtIn(lo, mid - 1, x)
Isqrt(x) == IsqrtIn(0, 255, x)

\* floor(255 * sqrt(n / m)) for 0 <= n <= m, without leaving 32-bit integers
ScaledRoot(n, m) ==
    LET a == (255 * n) \div m
        r == (255 * n) % m
    IN Isqrt(255 * a + (255 * r) \div m)

\* Eh, Ev = cv2.Sobel(B, CV_32F, ...); B = sqrt(1 + Eh^2 + Ev^2);
\* floor(B * (255 / max(B))) as uint8.  The float32 arithmetic is replaced
\* by exact arithmetic.
EdgeImage(B, valK) ==
    LET pl == Planes(B)
        sq == Tup([k \in 1..Len(pl) |->
                 LET gx == Correlate3(pl[k], SobelX(valK))
                     gy == Correlate3(pl[k], Transpose3(SobelX(valK)))
                 IN Matrix(Len(gx), Width(gx), LAMBDA r, c :
                       1 + gx[r][c] * gx[r][c] + gy[r][c] * gy[r][c])])
        m == ArrayMax(sq)
    IN FromPlanes(B.ndim,
         Tup([k \in 1..Len(pl) |->
            Matrix(Len(sq[k]), Width(sq[k]), LAMBDA r, c :
               ScaledRoot(sq[k][r][c], m))]))

\* cv2.filter2D(B, ddepth=CV_16S, kernel=h) for a 3 x 3 kernel, saturated
\* to 16 bits
Filter2D(B, h) ==
    LET pl == Planes(B)
    IN FromPlanes(B.ndim,
         Tup([k \in 1..Len(pl) |->
            LET f == Correlate3(pl[k], h)
            IN Matrix(Len(f), Width(f), LAMBDA r, c :
                  Max2(-32768, Min2(32767, f[r][c])))]))

\* B = B - min(B); floor(B * (255 / max(B))) as uint8.  When max(B) is 0 the
\* quotient is infinite, every element becomes NaN and its conversion to
\* uint8 is left to the platform: nan is the byte it produces.
Stretch(B, nan) ==
    LET pl == Planes(B)
        lo == ArrayMin(pl)
        hi == ArrayMax(pl) - lo
    IN FromPlanes(B.ndim,
         Tup([k \in 1..Len(pl) |->
            Matrix(Len(pl[k]), Width(pl[k]), LAMBDA r, c :
               IF hi = 0 THEN nan
               ELSE ((pl[k][r][c] - lo) * 255) \div hi)]))

\* cv2.threshold(B, thresh=t, maxval=255, type=THRESH_BINARY)
ThresholdBinary(B, t) ==
    LET pl == Planes(B)
    IN FromPlanes(B.ndim,
         Tup([k \in 1..Len(pl) |->
            Matrix(Len(pl[k]), Width(pl[k]), LAMBDA r, c :
               IF pl[k][r][c] > t THEN 255 ELSE 0)]))

\* the threshold cv2.threshold(..., type=THRESH_OTSU) uses for a 2-D uint8
\* array: the first level that maximises the between-class variance
\* n1 * n2 * (mean1 - mean2)^2, compared here as (s1 * n2 - s2 * n1)^2 / (n1 * n2)
OtsuThreshold(M) ==
    LET W  == Len(M[1])
        N  == Len(M) * W
        v(i) == M[((i - 1) \div W) + 1][((i - 1) % W) + 1]
        lv == Values(M)
        RECURSIVE SumTo(_, _)
        \* the sum of the first i elements that are <= t
        SumTo(i, t) == IF i = 0 THEN 0
                       ELSE (IF v(i) <= t THEN v(i) ELSE 0) + SumTo(i - 1, t)
        total == SumTo(N, 255)
        \* the variance at t, in units small enough for 32-bit integers
        sigma(t) ==
            LET n1 == Cardinality({i \in 1..N : v(i) <= t})
                n2 == N - n1
                s1 == SumTo(N, t)
                d  == s1 * n2 - (total - s1) * n1
            IN IF n1 = 0 \/ n2 = 0 THEN 0
               ELSE ((d \div 32) * (d \div 32)) \div (n1 * n2)
        sg == [t \in lv |-> sigma(t)]
        best == SetMax({sg[t] : t \in lv})
    IN SetMin({t \in lv : sg[t] = best})

\* cv2.cvtColor(A, COLOR_BGR2GRAY / COLOR_BGRA2GRAY) of a 3- or 4-channel
\* array, in OpenCV's 14-bit fixed point
ToGrayArray(A) ==
    [ndim |-> 2, ch |-> 0,
     rows |-> MapPx(A.rows, LAMBDA p :
                (p[1] * 1868 + p[2] * 9617 + p[3] * 4899 + 8192) \div 16384)]
\* cvtColor raises cv2.error for any other array
CanCvtToGray(A) == A.ndim = 3 /\ A.ch \in {3, 4} /\ Size(A) > 0

\* cv2.cvtColor(A, COLOR_GRAY2BGR) of a 2-D array
GrayToBGR(A) ==
    [ndim |-> 3, ch |-> 3, rows |-> MapPx(A.rows, LAMBDA v : <<v, v, v>>)]

\* cv2.resize(B, (newW, newH), interpolation=INTER_LINEAR): bilinear
\* interpolation at the pixel centres, rounded to nearest
Resize(B, newW, newH) ==
    LET pl == Planes(B)
        h == Shape0(B)
        w == Shape1(B)
        \* source index (1-based) and weight numerator of destination index i
        lo(i, n, m) == ((2 * i - 1) * n - m) \div (2 * m)
        fr(i, n, m) == ((2 * i - 1) * n - m) % (2 * m)
        i0(i, n, m) == IF lo(i, n, m) < 0 THEN 1
                       ELSE IF lo(i, n, m) >= n - 1 THEN n
                       ELSE lo(i, n, m) + 1
        i1(i, n, m) == Min2(i0(i, n, m) + 1, n)
        f(i, n, m)  == IF lo(i, n, m) < 0 \/ lo(i, n, m) >= n - 1 THEN 0
                       ELSE fr(i, n, m)
    IN FromPlanes(B.ndim,
         Tup([k \in 1..Len(pl) |->
            Matrix(newH, newW, LAMBDA r, c :
               LET M  == pl[k]
                   r0 == i0(r, h, newH)
                   r1 == i1(r, h, newH)
                   c0 == i0(c, w, newW)
                   c1 == i1(c, w, newW)
                   fy == f(r, h, newH)
                   fx == f(c, w, newW)
                   dy == 2 * newH
                   dx == 2 * newW
               IN ( (dy - fy) * ((dx - fx) * M[r0][c0] + fx * M[r0][c1])
                  + fy * ((dx - fx) * M[r1][c0] + fx * M[r1][c1])
                  + (dx * dy) \div 2 ) \div (dx * dy))]))

\* -------------------------------------------------------------- the state
VARIABLES
    pixmap,          \* self.pixmap: raster shown / edited
    prevPixmap,      \* self.prevPixmap: the one-level undo buffer
    aliased,         \* self.pixmap is self.prevPixmap (one QPixmap object)
    image,           \* self.image (QImage)
    isAllGray,       \* self.isAllGray
    npImage,         \* self.npImage (numpy array)
    cropActive,      \* self.cropActive
    scene,           \* pixmaps of the items on self.scene, in insertion order
    curItem,         \* index in scene of self.curItem, 0 for None
    windowTitle,     \* <<text, file name>> of the window title
    enabled,         \* enabled flag of every QAction that setMenuItems sets
    rubberBandActive,\* self.view.rubberBandActive
    cam,             \* self.cam: "None" or "Camera"
    camOn,           \* self.camOn
    rubberBandShown, \* self.view.rubberBand is visible
    pos1,            \* self.view.pos1, in scene coordinates
    leftDown,        \* the left mouse button is held down over the view
    posInfo,         \* text of the label self.posInfo
    dlg,             \* the modal dialog that is open, with the locals B and
                     \* oldPixmap of the handler that opened it and the
                     \* pixmap that was shown when it opened
    ueyeOK,          \* the pyueye import succeeded
    camOpen,         \* cameras in use: Camera.init() calls that succeeded
                     \* and were not yet followed by a Camera.exit()
    nEdits           \* image-producing operations so far

winVars == <<pixmap, prevPixmap, aliased, image, isAllGray, npImage,
             cropActive, scene, curItem, windowTitle, enabled,
             rubberBandActive, cam, camOn, camOpen>>
viewVars == <<rubberBandShown, pos1, leftDown, posInfo>>
vars == <<winVars, viewVars, dlg, ueyeOK, nEdits>>

\* the MainWindow object as a record, for the methods below
Self ==
    [pixmap |-> pixmap, prevPixmap |-> prevPixmap, aliased |-> aliased,
     image |-> image, isAllGray |-> isAllGray, npImage |-> npImage,
     cropActive |-> cropActive, scene |-> scene, curItem |-> curItem,
     windowTitle |-> windowTitle, enabled |-> enabled,
     rubberBandActive |-> rubberBandActive, cam |-> cam, camOn |-> camOn,
     camOpen |-> camOpen]

\* the fields of record s become the next state of the window
Becomes(s) ==
    LET t == s
    IN /\ pixmap' = t.pixmap
       /\ prevPixmap' = t.prevPixmap
       /\ aliased' = t.aliased
       /\ image' = t.image
       /\ isAllGray' = t.isAllGray
       /\ npImage' = t.npImage
       /\ cropActive' = t.cropActive
       /\ scene' = t.scene
       /\ curItem' = t.curItem
       /\ windowTitle' = t.windowTitle
       /\ enabled' = t.enabled
       /\ rubberBandActive' = t.rubberBandActive
       /\ cam' = t.cam
       /\ camOn' = t.camOn
       /\ camOpen' = t.camOpen

\* self.pixmap = <a new QPixmap p>
SetPixmap(s, p) == [s EXCEPT !.pixmap = p, !.aliased = FALSE]
\* an operation that does not store the pixmap it replaces
SavePrevDropped(s) == s

\* self.prevPixmap = self.pixmap
SavePrev(s) == [s EXCEPT !.prevPixmap = s.pixmap, !.aliased = TRUE]

\* if self.curItem: self.scene.removeItem(self.curItem)
\* self.curItem = QGraphicsPixmapItem(p); self.scene.addItem(self.curItem)
ReplaceItem(s, p) ==
    LET kept == IF s.curItem # 0
                THEN SubSeq(s.scene, 1, Len(s.scene) - 1)
                ELSE s.scene
    IN [s EXCEPT !.scene = Append(kept, p), !.curItem = Len(kept) + 1]

\* ------------------------------------------------------ position readout
\* self.posInfo = QLabel(' ')
BlankInfo == [text |-> " ", x |-> 0, y |-> 0, col |-> << >>]

\* int(posScene.x()): the fraction is cut off, toward zero.  Scene
\* coordinates are counted in half pixels here (the Scale menu zooms the
\* view, so a view pixel can map between two scene pixels)
IntOf(half) == IF half >= 0 THEN half \div 2 ELSE -((-half) \div 2)

\* QImage.pixelColor(x, y) as <<b, g, r>>; outside the image it is an invalid
\* QColor, which reads as 0, 0, 0.  The alpha of every image here is 255
pixelColor(img, x, y) ==
    IF x >= 0 /\ x < Width(img) /\ y >= 0 /\ y < Height(img)
    THEN img[y + 1][x + 1]
    ELSE <<0, 0, 0>>

\* the text mouseMoveEvent gives self.posInfo for the scene position
\* posScene.  No image here has the format Indexed8 or an alpha other than
\* 255, so these two branches of the handler are left out
mouseMoveEvent(s, posScene) ==
    LET x == IntOf(posScene[1])
        y == IntOf(posScene[2])
    IN IF x >= 0 /\ y >= 0 /\ y < Height(s.pixmap) /\ x < Width(s.pixmap)
       THEN IF ~IsNull(s.image)
            THEN LET col == pixelColor(s.image, x, y)
                 IN IF s.isAllGray
                    THEN [text |-> "gray", x |-> x, y |-> y,
                          col |-> <<col[3]>>]
                    ELSE [text |-> "(r,g,b)", x |-> x, y |-> y,
                          col |-> <<col[3], col[2], col[1]>>]
            ELSE [text |-> "(x,y)", x |-> x, y |-> y, col |-> << >>]
       ELSE BlankInfo

\* --------------------------------------------------- shared window methods
setMenuItems(s) ==
    LET pixmapOK == (~IsNull(s.pixmap)) /\ s.curItem # 0
    IN [s EXCEPT !.enabled =
          [s.enabled EXCEPT
             !.Save = pixmapOK, !.Clear = pixmapOK, !.ScaleOne = pixmapOK,
             !.ScaleUp = pixmapOK, !.ScaleDown = pixmapOK,
             !.Crop = pixmapOK /\ ~s.cropActive,
             !.ToGray = pixmapOK /\ ~s.isAllGray,
             !.ToEdges = pixmapOK /\ s.isAllGray,
             !.Filter = pixmapOK /\ s.isAllGray,
             !.ToBinary = pixmapOK /\ s.isAllGray,
             !.UndoLast = ~IsNull(s.prevPixmap)]]

setMenuItems2(s) ==
    LET t == setMenuItems(s)
    IN [t EXCEPT !.enabled =
          [t.enabled EXCEPT
             !.CameraOn = ueyeOK /\ ~t.camOn,
             !.CameraInfo = ueyeOK /\ t.camOn,
             !.GetOneImage = ueyeOK /\ t.camOn,
             !.GetOneImageV2 = ueyeOK /\ t.camOn,
             !.CameraOff = ueyeOK /\ t.camOn]]

\* setIsAllGray() with the default argument value = -1
setIsAllGray(s) ==
    setMenuItems([s EXCEPT !.isAllGray =
                     IF ~IsNull(s.image) THEN allGray(s.image) ELSE FALSE])

pixmap2image2np(s) ==
    LET s1 == ReplaceItem(s, s.pixmap)
        s2 == setIsAllGray([s1 EXCEPT !.image = s1.pixmap])
        A  == qimage2np(s2.image)
    IN [s2 EXCEPT !.npImage =
          IF s2.isAllGray /\ A.ndim = 3 THEN Channel0(A) ELSE A]

\* B is a numpy array here; rotate_image is the one caller that passes a list
np2image2pixmap(s, B, numpyAlso) ==
    LET img == np2qimage(B)
        s1 == [s EXCEPT !.image = img]
        s2 == IF ~IsNull(img) THEN ReplaceItem(SetPixmap(s1, img), img) ELSE s1
        s3 == IF numpyAlso THEN [s2 EXCEPT !.npImage = B] ELSE s2
    IN setIsAllGray(s3)

\* ------------------------------------------------------------- File menu
removePixmapItem(s) ==
    LET s1 == IF s.curItem # 0
              THEN [SavePrev(s) EXCEPT
                      !.scene = SubSeq(s.scene, 1, Len(s.scene) - 1),
                      !.curItem = 0]
              ELSE s
    IN setMenuItems([s1 EXCEPT !.windowTitle = <<"appFileName", "">>])

\* self.pixmap.load(fName) changes the QPixmap object in place, so it also
\* changes self.prevPixmap when both names denote that object
openFile(s, fName) ==
    IF fName = "" THEN setMenuItems(s)
    ELSE LET s1 == removePixmapItem(s)
             p  == load(fName)
             s2 == [s1 EXCEPT !.pixmap = p,
                              !.prevPixmap = IF s1.aliased THEN p ELSE @]
             s3 == IF IsNull(p)
                   THEN [s2 EXCEPT !.windowTitle =
                            <<"MainWindow.openFile: error for file", fName>>]
                   ELSE pixmap2image2np(
                          [s2 EXCEPT !.windowTitle = <<"appFileName :", fName>>])
         IN setMenuItems(s3)

\* ------------------------------------------------------------- Edit menu
\* undoLast as it would be with an assignment in place of the swap:
\* self.pixmap = self.prevPixmap
undoLastNoSwap(s) ==
    LET s1 == IF Width(s.prevPixmap) > 0 /\ Height(s.prevPixmap) > 0
              THEN [pixmap2image2np(
                      [s EXCEPT !.pixmap = s.prevPixmap, !.aliased = TRUE])
                    EXCEPT !.windowTitle = <<"appFileName : previous image", "">>]
              ELSE s
    IN setMenuItems(s1)

\* self.pixmap.swap(self.prevPixmap) exchanges the contents of the two objects
undoLast(s) ==
    LET s1 == IF Width(s.prevPixmap) > 0 /\ Height(s.prevPixmap) > 0
              THEN [pixmap2image2np(
                      [s EXCEPT !.pixmap = s.prevPixmap,
                                !.prevPixmap = s.pixmap])
                    EXCEPT !.windowTitle = <<"appFileName : previous image", "">>]
              ELSE s
    IN setMenuItems(s1)

\* cropStart that does not activate the rubber band of the view
cropStartNoBand(s) == setMenuItems([s EXCEPT !.cropActive = TRUE])

\* self.view.rubberBandActive = True is set through the view of the window
cropStart(s) ==
    setMenuItems([s EXCEPT !.cropActive = TRUE, !.rubberBandActive = TRUE])

\* QRect(x, y, w, h).normalized() as Qt 5 computes it: corners (x1, y1) and
\* (x2, y2) = (x + w - 1, y + h - 1), swapped when x2 < x1 - 1
NormalizedRect(x, y, w, h) ==
    LET x2 == x + w - 1
        y2 == y + h - 1
        nx1 == IF x2 < x - 1 THEN x2 ELSE x
        nx2 == IF x2 < x - 1 THEN x ELSE x2
        ny1 == IF y2 < y - 1 THEN y2 ELSE y
        ny2 == IF y2 < y - 1 THEN y ELSE y2
    IN [x |-> nx1, y |-> ny1, w |-> nx2 - nx1 + 1, h |-> ny2 - ny1 + 1]

\* QPixmap.copy(x, y, w, h): the part of p inside the rectangle.  For a
\* rectangle that misses p altogether Qt hands the null intersection on to
\* the platform pixmap, which gives a null pixmap or a copy of all of p:
\* `miss' is that outcome.
CopyRect(p, x, y, w, h, miss) ==
    LET c1 == Max2(x, 0) + 1
        c2 == Min2(x + w, Width(p))
        r1 == Max2(y, 0) + 1
        r2 == Min2(y + h, Height(p))
    IN IF IsNull(p) THEN NullRaster
       ELSE IF c1 > c2 \/ r1 > r2 THEN (IF miss = "whole" THEN p ELSE NullRaster)
       ELSE Tup([r \in 1..(r2 - r1 + 1) |-> SubSeq(p[r + r1 - 1], c1, c2)])

\* element e of an array is black: zero in a gray array, zero in channels
\* 0, 1 and 2 of a colour array
IsBlack(A, e) ==
    IF A.ndim = 3 /\ A.ch >= 3 THEN e[1] = 0 /\ e[2] = 0 /\ e[3] = 0 ELSE e = 0
BlackColumn(A, c) == \A r \in 1..Shape0(A) : IsBlack(A, A.rows[r][c])
BlackRow(A, r) == \A c \in 1..Shape1(A) : IsBlack(A, A.rows[r][c])

\* the four loops of cropEnd that count the black columns and rows at the
\* borders of A
FrameLeft(A) ==
    Cardinality({c \in 1..Shape1(A) : \A k \in 1..c : BlackColumn(A, k)})
FrameRight(A) ==
    Cardinality({c \in 1..Shape1(A) : \A k \in c..Shape1(A) : BlackColumn(A, k)})
FrameTop(A) ==
    Cardinality({r \in 1..Shape0(A) : \A k \in 1..r : BlackRow(A, k)})
FrameBottom(A) ==
    Cardinality({r \in 1..Shape0(A) : \A k \in r..Shape0(A) : BlackRow(A, k)})

\* A[r0:r1, c0:c1].copy() with 0-based bounds, clipped as numpy clips them
Slice(A, r0, r1, c0, c1) ==
    LET rr == Min2(r1, Shape0(A))
        cc == Min2(c1, Shape1(A))
    IN [A EXCEPT !.rows =
          Tup([r \in 1..(rr - r0) |-> SubSeq(A.rows[r + r0], c0 + 1, cc)])]

\* cropEnd indexes A.shape[1]: an IndexError for the 1-D empty array
CropEndRaises(s, rect) ==
    s.cropActive /\ ~(rect.w > CropMin /\ rect.h > CropMin) /\ s.npImage.ndim = 1

\* the state cropEnd leaves behind when it raises
cropEndRaised(s) == [s EXCEPT !.cropActive = FALSE]

\* the second branch of cropEnd without the test max((left,right,top,bottom))
cutBlackFrameNoBorderTest(s) ==
    LET A == s.npImage
        left == FrameLeft(A)
        right == FrameRight(A)
        top == FrameTop(A)
        bottom == FrameBottom(A)
        w == Shape1(A) - left - right
        h == Shape0(A) - top - bottom
    IN IF ~(w <= 0 \/ h <= 0)
       THEN LET B  == Slice(A, top, top + w, left, left + w)
                s1 == np2image2pixmap(SavePrev(s), B, TRUE)
            IN setIsAllGray(
                 [s1 EXCEPT !.windowTitle =
                    <<"appFileName : Black frame cut from image", "">>])
       ELSE s

\* the second branch of cropEnd: cut a frame of black rows and columns
cutBlackFrame(s) ==
    LET A == s.npImage
        left == FrameLeft(A)
        right == FrameRight(A)
        top == FrameTop(A)
        bottom == FrameBottom(A)
        w == Shape1(A) - left - right
        h == Shape0(A) - top - bottom
    IN IF Max2(Max2(left, right), Max2(top, bottom)) # 0 /\ ~(w <= 0 \/ h <= 0)
       THEN LET B  == Slice(A, top, top + w, left, left + w)
                s1 == np2image2pixmap(SavePrev(s), B, TRUE)
            IN setIsAllGray(
                 [s1 EXCEPT !.windowTitle =
                    <<"appFileName : Black frame cut from image", "">>])
       ELSE s

\* the outcomes QPixmap.copy can have in cropEnd: two when the rectangle is
\* used and misses the pixmap, one otherwise
MissOutcomes(s, rect) ==
    IF /\ s.cropActive /\ rect.w > CropMin /\ rect.h > CropMin
       /\ ~IsNull(s.pixmap)
       /\ (  rect.x >= Width(s.pixmap) \/ rect.x + rect.w <= 0
          \/ rect.y >= Height(s.pixmap) \/ rect.y + rect.h <= 0)
    THEN {"null", "whole"}
    ELSE {"null"}

\* cropEnd that takes the rectangle when w > 5 or h > 5
cropEndEitherSide(s, rect, miss) ==
    IF ~s.cropActive THEN s
    ELSE LET s0 == [s EXCEPT !.cropActive = FALSE]
             s1 == IF rect.w > CropMin \/ rect.h > CropMin
                   THEN LET t == SavePrev(s0)
                        IN [pixmap2image2np(
                              SetPixmap(t, CopyRect(t.prevPixmap, rect.x, rect.y,
                                                    rect.w, rect.h, miss)))
                            EXCEPT !.windowTitle =
                              <<"{self.appFileName} : cropped image", "">>]
                   ELSE cutBlackFrame(s0)
         IN setMenuItems(s1)

\* cropEnd without self.cropActive = False
cropEndKeepsActive(s, rect, miss) ==
    IF ~s.cropActive THEN s
    ELSE LET s1 == IF rect.w > CropMin /\ rect.h > CropMin
                   THEN LET t == SavePrev(s)
                        IN [pixmap2image2np(
                              SetPixmap(t, CopyRect(t.prevPixmap, rect.x, rect.y,
                                                    rect.w, rect.h, miss)))
                            EXCEPT !.windowTitle =
                              <<"{self.appFileName} : cropped image", "">>]
                   ELSE cutBlackFrame(s)
         IN setMenuItems(s1)

cropEnd(s, rect, miss) ==
    IF ~s.cropActive THEN s
    ELSE LET s0 == [s EXCEPT !.cropActive = FALSE]
             s1 == IF rect.w > CropMin /\ rect.h > CropMin
                   THEN LET t == SavePrev(s0)
                        IN [pixmap2image2np(
                              SetPixmap(t, CopyRect(t.prevPixmap, rect.x, rect.y,
                                                    rect.w, rect.h, miss)))
                            EXCEPT !.windowTitle =
                              <<"{self.appFileName} : cropped image", "">>]
                   ELSE cutBlackFrame(s0)
         IN setMenuItems(s1)

\* resizeImage: cv2.resize raises cv2.error for an empty array or a size
\* that is not positive
ResizeRaises(s, newW, newH) == Size(s.npImage) = 0 \/ newW <= 0 \/ newH <= 0

\* resizeImage up to the point where cv2.resize raises
resizeImageRaised(s) == SavePrev(s)

resizeImage(s, accepted, newW, newH) ==
    LET s1 == SavePrev(s)
        s2 == IF accepted
              THEN [np2image2pixmap(s1, Resize(s.npImage, newW, newH), TRUE)
                    EXCEPT !.windowTitle = <<"appFileName : resized image", "">>]
              ELSE [s1 EXCEPT !.prevPixmap = s.prevPixmap, !.aliased = s.aliased]
    IN setMenuItems(s2)

toGray(s) ==
    LET s1 == IF s.npImage.ndim = 3 /\ s.npImage.ch >= 3
              THEN [np2image2pixmap(SavePrev(s), ToGrayArray(s.npImage), TRUE)
                    EXCEPT !.windowTitle = <<"appFileName : gray scale image", "">>]
              ELSE s
    IN setMenuItems(s1)

\* --- the dialogs of to Edges, Filter image and to Binary
\* what the dialogs can return: the Sobel kernel size valK (the smoothing
\* length valS stays 1: no low-pass filter), the filter kernel h, where
\* <<1>> stands for a kernel of length 1, and the threshold t
EdgeKernels == {3}
Laplace == << <<0, -1, 0>>, <<-1, 4, -1>>, <<0, -1, 0>> >>
FilterKernels == { <<1>>, Laplace }
Thresholds == {0, 200}
\* the bytes a NaN may turn into when cast to uint8
NanBytes == {0, 255}

\* the images the three operations compute from array B
EdgesOf(B, valK) == EdgeImage(B, valK)
Filtered(B, h) == IF Len(h) > 1 THEN Filter2D(B, h) ELSE B
FilterOf(B, h, nan) == Stretch(Filtered(B, h), nan)
\* the bytes the NaNs of FilterOf(B, h, nan) can be: any of NanBytes when
\* the filtered array has one value only, and no NaN arises otherwise
NanOutcomes(B, h) ==
    IF Size(B) = 0 THEN {0}
    ELSE LET pl == Planes(Filtered(B, h))
         IN IF ArrayMax(pl) = ArrayMin(pl) THEN NanBytes ELSE {0}
BinaryOf(B, t) ==
    IF t < 2 THEN ThresholdBinary(B, OtsuThreshold(B.rows))
    ELSE ThresholdBinary(B, t)

\* cv2.Sobel and cv2.filter2D raise cv2.error for an empty array; so does
\* cv2.threshold, and with THRESH_OTSU also for an array that is not 2-D
EdgesRaises(B) == Size(B) = 0
FilterRaises(B) == Size(B) = 0
BinaryRaises(B, t) == Size(B) = 0 \/ (t < 2 /\ B.ndim # 2)

\* tryEdges that passes numpyAlso=True
tryEdgesNumpyAlso(s, valK) == np2image2pixmap(s, EdgesOf(s.npImage, valK), TRUE)

\* tryEdges, tryFilter, tryBinary: show a preview, self.npImage is not updated
tryEdges(s, valK) == np2image2pixmap(s, EdgesOf(s.npImage, valK), FALSE)
tryFilter(s, h, nan) == np2image2pixmap(s, FilterOf(s.npImage, h, nan), FALSE)
tryBinary(s, t) == np2image2pixmap(s, BinaryOf(s.npImage, t), FALSE)

\* toEdges / filterImage / toBinary before the dialog is shown:
\* oldPixmap = self.prevPixmap; self.prevPixmap = self.pixmap
dialogShown(s) == SavePrev(s)

\* ... and after it was accepted, result being the image computed from B
dialogAccepted(s, result, title) ==
    setMenuItems([np2image2pixmap(s, result, TRUE)
                  EXCEPT !.windowTitle = <<title, "">>])

\* ... or rejected: self.pixmap = self.prevPixmap; self.pixmap2image2np();
\* self.prevPixmap = oldPixmap
dialogRejected(s, oldPixmap, oldAliased) ==
    LET s1 == pixmap2image2np([s EXCEPT !.pixmap = s.prevPixmap, !.aliased = TRUE])
    IN setMenuItems([s1 EXCEPT !.prevPixmap = oldPixmap, !.aliased = oldAliased])

\* --------------------------------------------------------- Homework menu
\* cv2.circle(A, (x, y), radius, colour, thickness): the elements of A whose
\* distance to (x, y) is within the line of that thickness get the colour
DrawCircle(A, x, y, radius, thick, colour) ==
    LET lo == IF radius > thick THEN (2 * radius - thick) * (2 * radius - thick) ELSE 0
        hi == (2 * radius + thick) * (2 * radius + thick)
    IN [A EXCEPT !.rows =
          Matrix(Shape0(A), Shape1(A), LAMBDA r, c :
             LET d2 == 4 * ((c - 1 - x) * (c - 1 - x) + (r - 1 - y) * (r - 1 - y))
             IN IF lo <= d2 /\ d2 < hi
                THEN (IF A.ndim = 2 THEN colour[1]
                      ELSE Tup([k \in 1..A.ch |-> IF k <= 3 THEN colour[k] ELSE 0]))
                ELSE A.rows[r][c])]

\* the corners cv2.cornerHarris reports, as (x, y) positions
CornerResults == { << >>, << <<3, 3>> >> }

\* detectCornersHarris: everything runs inside try / except, so the
\* cv2.error for an empty array is caught and nothing changes
detectCornersHarris(s, corners) ==
    IF Size(s.npImage) = 0 THEN s
    ELSE LET A0 == IF s.npImage.ndim = 2 THEN GrayToBGR(s.npImage) ELSE s.npImage
             A1 == IF corners = << >> THEN A0
                   ELSE DrawCircle(A0, corners[1][1], corners[1][2],
                                   CornerRadius, 1, <<0, 0, 255>>)
             s1 == np2image2pixmap([s EXCEPT !.npImage = A1], A1, FALSE)
         IN setMenuItems([s1 EXCEPT !.windowTitle =
                            <<"appFileName : Harris Corner Detection", "">>])

\* drawlines: cv2.HoughLines(edges, 1, pi / 180, 200) needs 200 points on a
\* line, more than an image of these sizes has, so lines is None and img_bgr
\* is the gray picture; self.npImage is not updated
DrawlinesRaises(s) == ~CanCvtToGray(s.npImage)
drawlines(s) ==
    [np2image2pixmap(s, GrayToBGR(ToGrayArray(s.npImage)), FALSE)
     EXCEPT !.windowTitle = <<"appFileName: Draw Lines", "">>]

\* rotate_90_clockwise(matrix), for a list of rows
rotate_90_clockwise(matrix) ==
    Matrix(Width(matrix), Len(matrix),
           LAMBDA r, c : matrix[Len(matrix) - c + 1][r])

\* rotate_image calls self.rotate_90_clockwise(self.npImage): the method is
\* declared without self, so the call passes two arguments to a function of
\* one and raises TypeError before anything is assigned
rotate_image(s) == s

\* ------------------------------------------------------------- Dice menu
\* self.curItem = QGraphicsPixmapItem(...); self.scene.addItem(self.curItem)
\* without removing the item that is on the scene
AddItem(s, p) ==
    [s EXCEPT !.scene = Append(s.scene, p), !.curItem = Len(s.scene) + 1]

\* self.image = np2qimage(self.npImage); self.pixmap = QPixmap.fromImage(..);
\* the new item is added
showArray(s, title) ==
    LET img == np2qimage(s.npImage)
    IN [AddItem(SetPixmap([s EXCEPT !.image = img], img), img)
        EXCEPT !.windowTitle = <<title, "">>]

\* self.npImage[j:j+3, i:i+3] = 0 for i in range(0, w, 10), j in range(0, h, 10)
Dotted(A) ==
    [A EXCEPT !.rows =
       Matrix(Shape0(A), Shape1(A), LAMBDA r, c :
          IF (r - 1) % DotStep < DotSize /\ (c - 1) % DotStep < DotSize
          THEN (IF A.ndim = 2 THEN 0 ELSE Tup([k \in 1..A.ch |-> 0]))
          ELSE A.rows[r][c])]

blackDots(s) ==
    IF Size(s.npImage) > 0
    THEN showArray([s EXCEPT !.npImage = Dotted(s.npImage)],
                   "appFileName : Camera image with black dots")
    ELSE s

\* what cv2.HoughCircles returns: None (<< >>) or circles (x, y, r)
CircleResults == { << >>, << <<3, 3, 2>> >> }

FindCirclesRaises(s) == Size(s.npImage) > 0 /\ ~CanCvtToGray(s.npImage)
findCircles(s, circles) ==
    IF Size(s.npImage) > 0 /\ circles # << >>
    THEN showArray(
           [s EXCEPT !.npImage =
              DrawCircle(s.npImage, circles[1][1], circles[1][2], circles[1][3],
                         4, <<0, 255, 0>>)],
           "appFileName : Camera image with circles")
    ELSE s

\* ----------------------------------------------------------- Camera menu
\* frames the camera can deliver (image_data.as_1d_image()): a picture and a
\* frame of one value only, which copy_image turns into an empty array
PictureFrame ==
    [ndim |-> 3, ch |-> 3,
     rows |-> Matrix(FramedH, FramedW, LAMBDA r, c :
                 <<(c * 25) % 256, (r * 35) % 256, 200>>)]
DarkFrame ==
    [ndim |-> 3, ch |-> 3,
     rows |-> Matrix(FramedH, FramedW, LAMBDA r, c : <<0, 0, 0>>)]
CameraFrames == {PictureFrame, DarkFrame}

copy_image(s, frame) ==
    LET pl == Planes(frame)
    IN [s EXCEPT !.npImage =
          IF ArrayMin(pl) # ArrayMax(pl) THEN frame ELSE EmptyArray]

\* cameraOn without the test of self.camOn
cameraOnUnguarded(s, initOK) ==
    IF ueyeOK
    THEN IF initOK
         THEN setMenuItems2([s EXCEPT !.cam = "Camera", !.camOn = TRUE,
                                      !.camOpen = @ + 1])
         ELSE [s EXCEPT !.cam = "Camera"]
    ELSE s

\* initOK: self.cam.init() returns, a camera is connected; set_colormode,
\* set_aoi and alloc then configure it.  Otherwise init() raises ("gives
\* error when camera not connected"): self.cam is set, self.camOn is not.
cameraOn(s, initOK) ==
    IF ueyeOK /\ ~s.camOn
    THEN IF initOK
         THEN setMenuItems2([s EXCEPT !.cam = "Camera", !.camOn = TRUE,
                                      !.camOpen = @ + 1])
         ELSE [s EXCEPT !.cam = "Camera"]
    ELSE s

cameraOff(s) ==
    IF ueyeOK /\ s.camOn
    THEN setMenuItems2([s EXCEPT !.camOn = FALSE, !.camOpen = @ - 1])
    ELSE s

\* printCameraInfo only prints
printCameraInfo(s) == s

\* getOneImage and getOneImageV2: retOK is ueye.is_WaitForNextImage
\* returning IS_SUCCESS
getOneImage(s, retOK, frame) ==
    IF ~(ueyeOK /\ s.camOn) THEN s
    ELSE LET s1 == copy_image(s, frame)
             img == np2qimage(s1.npImage)
             s2 == IF ~retOK
                   THEN [s EXCEPT !.windowTitle =
                           <<"{self.appFileName}: getOneImage() error", "">>]
                   ELSE IF Size(s1.npImage) > 0
                   THEN (IF ~IsNull(img)
                         THEN [ReplaceItem(
                                 SetPixmap([s1 EXCEPT !.image = img], img), img)
                               EXCEPT !.windowTitle =
                                 <<"appFileName : Camera image", "">>]
                         ELSE SetPixmap([s1 EXCEPT !.image = img], NullRaster))
                   ELSE SetPixmap([s1 EXCEPT !.image = NullRaster], NullRaster)
         IN setMenuItems2(setIsAllGray(s2))

\* ---------------------------------------------------------------- actions
\* no modal dialog is open
NoDialog ==
    [name |-> "none", B |-> EmptyArray, oldPixmap |-> NullRaster,
     oldAliased |-> FALSE, shown |-> NullRaster]

InitEnabled ==
    [Save |-> TRUE, Clear |-> TRUE, ScaleOne |-> TRUE, ScaleUp |-> TRUE,
     ScaleDown |-> TRUE, Crop |-> TRUE, ToGray |-> TRUE, ToEdges |-> TRUE,
     Filter |-> TRUE, ToBinary |-> TRUE, UndoLast |-> TRUE,
     CameraOn |-> TRUE, CameraInfo |-> TRUE, GetOneImage |-> TRUE,
     GetOneImageV2 |-> TRUE, CameraOff |-> TRUE]

\* MainWindow.__init__() of appImageViewer2 started without a file name
Constructed ==
    setMenuItems2(
      [pixmap |-> NullRaster, prevPixmap |-> NullRaster, aliased |-> FALSE,
       image |-> NullRaster, isAllGray |-> FALSE, npImage |-> EmptyArray,
       cropActive |-> FALSE, scene |-> << >>, curItem |-> 0,
       windowTitle |-> <<"appFileName", "">>, enabled |-> InitEnabled,
       rubberBandActive |-> FALSE, cam |-> "None", camOn |-> FALSE,
       camOpen |-> 0])

Init ==
    /\ ueyeOK \in BOOLEAN
    /\ nEdits = 0
    /\ dlg = NoDialog
    /\ rubberBandShown = FALSE
    /\ pos1 = <<0, 0>>
    /\ leftDown = FALSE
    /\ posInfo = BlankInfo
    /\ pixmap = Constructed.pixmap
    /\ prevPixmap = Constructed.prevPixmap
    /\ aliased = Constructed.aliased
    /\ image = Constructed.image
    /\ isAllGray = Constructed.isAllGray
    /\ npImage = Constructed.npImage
    /\ cropActive = Constructed.cropActive
    /\ scene = Constructed.scene
    /\ curItem = Constructed.curItem
    /\ windowTitle = Constructed.windowTitle
    /\ enabled = Constructed.enabled
    /\ rubberBandActive = Constructed.rubberBandActive
    /\ cam = Constructed.cam
    /\ camOn = Constructed.camOn
    /\ camOpen = Constructed.camOpen

\* scene positions the mouse is pressed and released at (the view is shown
\* at scale 1 and not scrolled, so view and scene coordinates agree)
PressPoints == {<<0, 0>>}
ReleasePoints == {<<0, 0>>, <<6, 6>>}
\* scene positions of the pointer in move events, in half pixels: half a
\* pixel left of the first column, in row 1
MovePoints == {<<-1, 2>>}
\* sizes the resize dialog returns
ResizeSizes == {<<4, 3>>}

\* the view gets mouse events: no modal dialog is open
ViewIdle == dlg.name = "none"

\* the user can pick a menu item: no mouse button is held down over the view
Idle == ViewIdle /\ ~leftDown

\* a handler ran to its end, or it raised: then the traceback is printed and
\* the state is what the handler had assigned by then.  (Where PyQt aborts
\* the application on an unhandled exception, the behaviour ends there.)
Done == UNCHANGED ueyeOK

\* one more image-producing operation
Edit == nEdits < MaxEdits /\ nEdits' = nEdits + 1

\* an image operation that changes the state is counted, one that changes
\* nothing is not
Counted(s) == IF s = Self THEN UNCHANGED nEdits ELSE Edit


\* --- File menu
OpenFileDlg ==
    /\ Idle
    /\ \E fName \in FileNames : Becomes(openFile(Self, fName))
    /\ Done
    /\ UNCHANGED <<viewVars, dlg, nEdits>>

ClearImage ==
    /\ Idle /\ enabled.Clear
    /\ Becomes(removePixmapItem(Self))
    /\ Done
    /\ UNCHANGED <<viewVars, dlg, nEdits>>

\* --- mouse events of MyGraphicsView
MousePress ==
    /\ ViewIdle
    /\ \E button \in {"Left", "Right"}, pos \in PressPoints :
         IF button = "Left"
         THEN /\ ~leftDown
              /\ leftDown' = TRUE
              /\ pos1' = pos
              /\ rubberBandShown' = (rubberBandShown \/ rubberBandActive)
              /\ UNCHANGED posInfo
         ELSE UNCHANGED viewVars
    /\ Done
    /\ UNCHANGED <<winVars, dlg, nEdits>>

\* with mouse tracking on the view gets a move event with or without a
\* button held down; getOneImage switches tracking off and a capture without
\* a picture leaves it off, and then the view gets the event while a button
\* is held down.  The right button is not part of the state, so a move is
\* possible whenever the view gets events.  The geometry the handler gives
\* the rubber band is the rectangle BandRect, which the release computes
MouseMove ==
    /\ ViewIdle
    /\ \E pos \in MovePoints : posInfo' = mouseMoveEvent(Self, pos)
    /\ Done
    /\ UNCHANGED <<winVars, rubberBandShown, pos1, leftDown, dlg, nEdits>>

\* the rectangle of the rubber band after a drag from pos1 to pos
BandRect(pos) ==
    NormalizedRect(pos1[1], pos1[2], pos[1] - pos1[1], pos[2] - pos1[2])

\* the release of the left button emits rubberBandRectGiven, which is
\* connected to cropEnd: cropEnd runs inside mouseReleaseEvent
ReleaseAt(button, pos) ==
    /\ ViewIdle
    /\ LET rect == BandRect(pos)
           s0   == [Self EXCEPT !.rubberBandActive = FALSE]
       IN IF button = "Left" /\ rubberBandActive
          THEN /\ leftDown
               /\ leftDown' = FALSE
               /\ rubberBandShown' = FALSE
               /\ UNCHANGED <<pos1, posInfo>>
               /\ IF CropEndRaises(s0, rect)
                  THEN /\ Becomes(cropEndRaised(s0))
                       /\ UNCHANGED nEdits
                  ELSE \E miss \in MissOutcomes(s0, rect) :
                         LET s1 == cropEnd(s0, rect, miss)
                         IN /\ Becomes(s1)
                            /\ IF s1.pixmap # pixmap
                               THEN Edit ELSE UNCHANGED nEdits
          ELSE /\ button = "Left" => leftDown
               /\ leftDown' = (leftDown /\ button # "Left")
               /\ UNCHANGED <<winVars, rubberBandShown, pos1, posInfo, nEdits>>
    /\ Done
    /\ UNCHANGED dlg

MouseRelease ==
    \E button \in {"Left", "Right"}, pos \in ReleasePoints :
       ReleaseAt(button, pos)

\* --- Edit menu
CropStart ==
    /\ Idle /\ enabled.Crop
    /\ Becomes(cropStart(Self))
    /\ Done
    /\ UNCHANGED <<viewVars, dlg, nEdits>>

\* the resize dialog is modal and has no preview: shown and closed in one step
ResizeImage ==
    /\ Idle
    /\ \E accepted \in BOOLEAN, size \in ResizeSizes :
         IF accepted /\ ResizeRaises(Self, size[1], size[2])
         THEN /\ Becomes(resizeImageRaised(Self))
              /\ Done /\ UNCHANGED nEdits
         ELSE /\ Becomes(resizeImage(Self, accepted, size[1], size[2]))
              /\ Done
              /\ IF accepted THEN Edit ELSE UNCHANGED nEdits
    /\ UNCHANGED <<viewVars, dlg>>

ToGray ==
    /\ Idle /\ enabled.ToGray
    /\ Becomes(toGray(Self))
    /\ Done /\ Edit
    /\ UNCHANGED <<viewVars, dlg>>

UndoLast ==
    /\ Idle /\ enabled.UndoLast
    /\ Becomes(undoLast(Self))
    /\ Done
    /\ UNCHANGED <<viewVars, dlg, nEdits>>

\* toEdges, filterImage, toBinary up to d.getValues(): the dialog opens
ShowDialog(name) ==
    /\ Idle
    /\ dlg' = [name |-> name, B |-> npImage, oldPixmap |-> prevPixmap,
               oldAliased |-> aliased, shown |-> pixmap]
    /\ Becomes(dialogShown(Self))
    /\ Done
    /\ UNCHANGED <<viewVars, nEdits>>

\* a preview requested from the open dialog
Preview(name, raises, s) ==
    /\ dlg.name = name
    /\ IF raises
       THEN UNCHANGED winVars /\ Done
       ELSE Becomes(s) /\ Done
    /\ UNCHANGED <<viewVars, dlg, nEdits>>

\* the dialog is accepted: the handler goes on with the values it returned
Accepted(name, raises, result, title) ==
    /\ dlg.name = name
    /\ IF raises
       THEN UNCHANGED winVars /\ Done /\ UNCHANGED nEdits
       ELSE Becomes(dialogAccepted(Self, result, title)) /\ Done /\ Edit
    /\ dlg' = NoDialog
    /\ UNCHANGED viewVars

\* the dialog is rejected
Rejected(name) ==
    /\ dlg.name = name
    /\ Becomes(dialogRejected(Self, dlg.oldPixmap, dlg.oldAliased))
    /\ dlg' = NoDialog
    /\ Done
    /\ UNCHANGED <<viewVars, nEdits>>

ToEdges == enabled.ToEdges /\ ShowDialog("EdgeDialog")
TryEdges ==
    \E valK \in EdgeKernels :
        Preview("EdgeDialog", EdgesRaises(npImage),
                tryEdges(Self, valK))
ToEdgesAccepted ==
    \E valK \in EdgeKernels :
        Accepted("EdgeDialog", EdgesRaises(dlg.B),
                 EdgesOf(dlg.B, valK), "{self.appFileName} : edge image")
ToEdgesRejected == Rejected("EdgeDialog")

FilterImage == enabled.Filter /\ ShowDialog("FilterDialog")
TryFilter ==
    \E h \in FilterKernels :
      \E nan \in NanOutcomes(npImage, h) :
        Preview("FilterDialog", FilterRaises(npImage),
                tryFilter(Self, h, nan))
\* with a kernel of length 1 filterImage filters self.npImage, not B
FilterImageAccepted ==
    \E h \in FilterKernels :
      \E nan \in NanOutcomes(IF Len(h) > 1 THEN dlg.B ELSE npImage, h) :
        Accepted("FilterDialog",
                 FilterRaises(IF Len(h) > 1 THEN dlg.B ELSE npImage),
                 FilterOf(IF Len(h) > 1 THEN dlg.B ELSE npImage, h, nan),
                 "appFileName : filtered image")
FilterImageRejected == Rejected("FilterDialog")

ToBinary == enabled.ToBinary /\ ShowDialog("ThresholdDialog")
TryBinary ==
    \E t \in Thresholds :
        Preview("ThresholdDialog", BinaryRaises(npImage, t),
                tryBinary(Self, t))
ToBinaryAccepted ==
    \E t \in Thresholds :
        Accepted("ThresholdDialog", BinaryRaises(dlg.B, t),
                 BinaryOf(dlg.B, t), "appFileName : binary image")
ToBinaryRejected == Rejected("ThresholdDialog")

\* --- Homework menu
DetectCornersHarris ==
    /\ Idle
    /\ \E corners \in CornerResults :
         LET s1 == detectCornersHarris(Self, corners)
         IN Becomes(s1) /\ Counted(s1)
    /\ Done
    /\ UNCHANGED <<viewVars, dlg>>

Drawlines ==
    /\ Idle
    /\ IF DrawlinesRaises(Self)
       THEN UNCHANGED <<winVars, nEdits>> /\ Done
       ELSE Becomes(drawlines(Self)) /\ Done /\ Edit
    /\ UNCHANGED <<viewVars, dlg>>

RotateImage ==
    /\ Idle
    /\ Becomes(rotate_image(Self))
    /\ Done
    /\ UNCHANGED <<viewVars, dlg, nEdits>>

\* --- Dice menu
BlackDots ==
    /\ Idle
    /\ LET s1 == blackDots(Self) IN Becomes(s1) /\ Counted(s1)
    /\ Done
    /\ UNCHANGED <<viewVars, dlg>>

FindCircles ==
    /\ Idle
    /\ IF FindCirclesRaises(Self)
       THEN UNCHANGED <<winVars, nEdits>> /\ Done
       ELSE /\ \E circles \in CircleResults :
                 LET s1 == findCircles(Self, circles)
                 IN Becomes(s1) /\ Counted(s1)
            /\ Done
    /\ UNCHANGED <<viewVars, dlg>>

\* --- Camera menu
CameraOn ==
    /\ Idle /\ enabled.CameraOn
    /\ \E initOK \in BOOLEAN : Becomes(cameraOn(Self, initOK))
    /\ Done
    /\ UNCHANGED <<viewVars, dlg, nEdits>>

CameraOff ==
    /\ Idle /\ enabled.CameraOff
    /\ Becomes(cameraOff(Self))
    /\ Done
    /\ UNCHANGED <<viewVars, dlg, nEdits>>

PrintCameraInfo ==
    /\ Idle /\ enabled.CameraInfo
    /\ Becomes(printCameraInfo(Self))
    /\ Done
    /\ UNCHANGED <<viewVars, dlg, nEdits>>

GetOneImage ==
    /\ Idle /\ enabled.GetOneImage
    /\ \E retOK \in BOOLEAN, frame \in CameraFrames :
         LET s1 == getOneImage(Self, retOK, frame)
         IN Becomes(s1) /\ Counted(s1)
    /\ Done
    /\ UNCHANGED <<viewVars, dlg>>

GetOneImageV2 ==
    /\ Idle /\ enabled.GetOneImageV2
    /\ \E retOK \in BOOLEAN, frame \in CameraFrames :
         LET s1 == getOneImage(Self, retOK, frame)
         IN Becomes(s1) /\ Counted(s1)
    /\ Done
    /\ UNCHANGED <<viewVars, dlg>>

Next ==
    \/ OpenFileDlg
    \/ ClearImage
    \/ MousePress
    \/ MouseRelease
    \/ CropStart
    \/ ResizeImage
    \/ ToGray
    \/ UndoLast
    \/ ToEdges
    \/ TryEdges
    \/ ToEdgesAccepted
    \/ ToEdgesRejected
    \/ FilterImage
    \/ TryFilter
    \/ FilterImageAccepted
    \/ FilterImageRejected
    \/ ToBinary
    \/ TryBinary
    \/ ToBinaryAccepted
    \/ ToBinaryRejected
    \/ DetectCornersHarris
    \/ Drawlines
    \/ RotateImage
    \/ BlackDots
    \/ FindCircles
    \/ CameraOn
    \/ CameraOff
    \/ PrintCameraInfo
    \/ GetOneImage
    \/ GetOneImageV2

Spec == Init /\ [][Next]_vars

\* the same program with the pointer moving over the view between the
\* operations (in Spec it rests, and the position label keeps its text)
NextReadout ==
    \/ Next
    \/ MouseMove

SpecReadout == Init /\ [][NextReadout]_vars

\* ------------------------------------------------------------ properties
\* pixmap P is the image on display: a pixmap shown by the current item
Displayed(P) == ~IsNull(P) /\ curItem # 0 /\ scene[curItem] = P

\* the array pixmap2image2np derives from pixmap P
ArrayOf(P) ==
    IF IsNull(P) THEN EmptyArray
    ELSE IF allGray(P) THEN Channel0(qimage2np(P)) ELSE qimage2np(P)

\* --- C1
\* the steps of the Edit menu that are accepted and change the image, taken
\* from the main window: a rectangle crop, an accepted Resize, to Gray on a
\* colour image
EditedDirectly ==
    /\ nEdits' = nEdits + 1
    /\ \/ /\ leftDown /\ cropActive
          /\ windowTitle'[1] = "{self.appFileName} : cropped image"
          /\ MouseRelease
       \/ ResizeImage
       \/ npImage.ndim = 3 /\ npImage.ch >= 3 /\ ToGray

\* ... and taken by accepting the dialog of to Edges, Filter image, to Binary
EditedByDialog ==
    /\ nEdits' = nEdits + 1
    /\ (ToEdgesAccepted \/ FilterImageAccepted \/ ToBinaryAccepted)

\* after the step prevPixmap holds P, and undoLast would make P the current
\* pixmap, shown and with image and npImage derived from it, and the pixmap
\* of after the step the previous one
UndoGivesBack(P) ==
    /\ prevPixmap' = P
    /\ LET u == undoLast(Self')
       IN /\ u.pixmap = P
          /\ u.curItem # 0 /\ u.scene[u.curItem] = P
          /\ u.image = P
          /\ u.npImage = ArrayOf(P)
          /\ u.prevPixmap = pixmap'

\* C1: every accepted, image-changing Edit-menu operation applied while image
\* P is displayed leaves P in prevPixmap, and an undoLast right after it makes
\* P the current pixmap again (redisplayed, image and npImage re-derived) and
\* the edited image the previous one.  For the three dialogs P is the image
\* that was displayed when the dialog opened.
C1_UndoRestoresEdited ==
    [][ /\ (Displayed(pixmap) /\ EditedDirectly => UndoGivesBack(pixmap))
        /\ (~IsNull(dlg.shown) /\ EditedByDialog => UndoGivesBack(dlg.shown)) ]_vars

\* an undo has brought the colour picture back after to Gray
C1_Witness ==
    /\ nEdits = 1
    /\ windowTitle[1] = "appFileName : previous image"
    /\ pixmap = ColorFile
    /\ prevPixmap = np2qimage(ToGrayArray(qimage2np(ColorFile)))

\* --- C2
\* the number of undoLast calls in a row that are looked at
MaxUndos == 3

\* the window after n calls of undoLast
RECURSIVE UndoN(_, _)
UndoN(s, n) == IF n = 0 THEN s ELSE undoLast(UndoN(s, n - 1))

\* C2 as it is stated: wherever prevPixmap is non-null, two calls of
\* undoLast in a row leave the contents of pixmap and prevPixmap as they were
C2_DoubleUndoIsIdentity ==
    ~IsNull(prevPixmap) =>
        /\ UndoN(Self, 2).pixmap = pixmap
        /\ UndoN(Self, 2).prevPixmap = prevPixmap

\* C2: wherever prevPixmap is non-null, undoLast exchanges the contents of
\* pixmap and prevPixmap; a second call exchanges them back when the pixmap
\* of before was non-null too, and does nothing when it was null (undo is
\* disabled then); any number of calls only ever shows the current and the
\* previous image
C2_UndoSwapsOneLevel ==
    ~IsNull(prevPixmap) =>
        /\ UndoN(Self, 1).pixmap = prevPixmap
        /\ UndoN(Self, 1).prevPixmap = pixmap
        /\ IF IsNull(pixmap)
           THEN UndoN(Self, 2) = UndoN(Self, 1) /\ ~UndoN(Self, 1).enabled.UndoLast
           ELSE /\ UndoN(Self, 2).pixmap = pixmap
                /\ UndoN(Self, 2).prevPixmap = prevPixmap
        /\ \A n \in 0..MaxUndos :
              /\ UndoN(Self, n).pixmap \in {pixmap, prevPixmap}
              /\ UndoN(Self, n).prevPixmap \in {pixmap, prevPixmap}

\* undo is enabled for two different images, after the frame was cut from
\* framed.png and undoLast has brought the framed picture back
C2_Witness ==
    /\ windowTitle[1] = "appFileName : previous image"
    /\ enabled.UndoLast
    /\ pixmap = FramedFile
    /\ ~IsNull(prevPixmap) /\ prevPixmap # pixmap

\* --- C3
\* the three representations of the window denote one image
Synchronized ==
    /\ image = pixmap
    /\ np2qimage(npImage) = pixmap

\* C3: after every completed operation that edits the image, and after
\* undoLast, pixmap, image and npImage denote the same image
C3_RepresentationsSynchronized ==
    [][ (nEdits' = nEdits + 1 \/ UndoLast) => Synchronized' ]_vars

\* --- C4
\* C4: Detect Corner, Lines, Add black dots, Find circles and Get one image,
\* when they replace the image on display, store that image in prevPixmap,
\* and the next undoLast shows it again
C4_MenuOperationsStorePrevious ==
    [][ ( /\ Displayed(pixmap)
          /\ nEdits' = nEdits + 1
          /\ \/ DetectCornersHarris \/ Drawlines
             \/ BlackDots \/ FindCircles
             \/ GetOneImage \/ GetOneImageV2 )
        => /\ prevPixmap' = pixmap
           /\ undoLast(Self').pixmap = pixmap ]_vars

\* --- C5
\* C5: the rubber band is shown only while the left button is down and only
\* if cropStart had set rubberBandActive, which nothing else sets; the
\* release of the left button hides the band and clears rubberBandActive and
\* cropActive, so that cropEnd acts at most once for a cropStart; a left
\* release without a cropStart before it changes nothing in the window, and
\* neither does a cropEnd while cropActive is false
C5_RubberBandProtocol ==
    [][ /\ rubberBandActive = cropActive
        /\ rubberBandShown => leftDown /\ rubberBandActive
        /\ rubberBandShown' /\ ~rubberBandShown
             => MousePress /\ rubberBandActive /\ leftDown'
        /\ rubberBandActive' /\ ~rubberBandActive => CropStart
        /\ leftDown /\ ~leftDown'
             => /\ MouseRelease
                /\ ~rubberBandShown' /\ ~rubberBandActive' /\ ~cropActive'
                /\ ~rubberBandActive => UNCHANGED winVars
        /\ ~cropActive
             => \A pos \in ReleasePoints :
                   cropEnd(Self, BandRect(pos), "null") = Self ]_vars

\* a rectangle was dragged after cropStart and the release has cropped the
\* picture
C5_Witness ==
    /\ windowTitle[1] = "{self.appFileName} : cropped image"
    /\ ~leftDown /\ ~rubberBandShown /\ ~rubberBandActive /\ ~cropActive
    /\ prevPixmap = ColorFile

\* --- C6
\* a click: the left button is released after cropStart with a rubber band
\* that is not both wider and higher than 5
Click(pos) ==
    /\ cropActive /\ rubberBandActive /\ leftDown
    /\ ~(BandRect(pos).w > CropMin /\ BandRect(pos).h > CropMin)
    /\ ReleaseAt("Left", pos)

\* array A has black rows or columns at its borders and something is left
\* when they are taken away
HasBlackFrame(A) ==
    /\ A.ndim # 1
    /\ FrameLeft(A) + FrameRight(A) + FrameTop(A) + FrameBottom(A) > 0
    /\ Shape1(A) - FrameLeft(A) - FrameRight(A) > 0
    /\ Shape0(A) - FrameTop(A) - FrameBottom(A) > 0

C7_MenuItemsFresh ==
    dlg.name = "none" =>
        LET pixmapOK == ~IsNull(pixmap) /\ curItem # 0
        IN /\ enabled.Save = pixmapOK
           /\ enabled.Clear = pixmapOK
           /\ enabled.ScaleOne = pixmapOK
           /\ enabled.ScaleUp = pixmapOK
           /\ enabled.ScaleDown = pixmapOK
           /\ enabled.Crop = (pixmapOK /\ ~cropActive)
           /\ enabled.ToGray = (pixmapOK /\ ~isAllGray)
           /\ enabled.ToEdges = (pixmapOK /\ isAllGray)
           /\ enabled.Filter = (pixmapOK /\ isAllGray)
           /\ enabled.ToBinary = (pixmapOK /\ isAllGray)

C9_OpenMissingFile ==
    [][ (OpenFileDlg /\ windowTitle' =
            <<"MainWindow.openFile: error for file", "missing.png">>)
        => /\ IsNull(pixmap')
           /\ curItem' = 0
           /\ scene' = << >>
           /\ \A item \in {"Save", "Clear", "ScaleOne", "ScaleUp", "ScaleDown",
                           "Crop", "ToGray", "ToEdges", "Filter", "ToBinary"} :
                 ~enabled'[item] ]_vars

\* --- C10
\* C10: Rotate makes npImage the array of before turned 90 degrees clockwise,
\* W x H for H x W, and image and pixmap the picture of that array
C10_RotateTurnsClockwise ==
    (Idle /\ Displayed(pixmap) /\ Size(npImage) > 0) =>
        LET t == rotate_image(Self)
        IN /\ t.npImage.rows = rotate_90_clockwise(npImage.rows)
           /\ Shape0(t.npImage) = Shape1(npImage)
           /\ Shape1(t.npImage) = Shape0(npImage)
           /\ t.image = np2qimage(t.npImage)
           /\ t.pixmap = t.image

\* --- C11
\* a step that rejects the dialog of to Edges, Filter image or to Binary
DialogRejected == ToEdgesRejected \/ FilterImageRejected \/ ToBinaryRejected

\* C11: when the dialog of resizeImage, toEdges, filterImage or toBinary is
\* rejected, pixmap, prevPixmap and npImage are afterwards what they were
\* before the operation, whatever previews were shown in between
C11_CancelRestoresImageState ==
    [][ /\ DialogRejected => /\ pixmap' = dlg.shown
                             /\ prevPixmap' = dlg.oldPixmap
                             /\ npImage' = dlg.B
        /\ Idle => \A size \in ResizeSizes :
                      LET t == resizeImage(Self, FALSE, size[1], size[2])
                      IN /\ t.pixmap = pixmap
                         /\ t.prevPixmap = prevPixmap
                         /\ t.npImage = npImage ]_vars

\* --- C12
\* the images an accepted dialog can compute from array B
CommittedFrom(B) ==
    IF dlg.name = "EdgeDialog" THEN { EdgesOf(B, valK) : valK \in EdgeKernels }
    ELSE IF dlg.name = "FilterDialog"
    THEN UNION { { FilterOf(B, h, nan) : nan \in NanOutcomes(B, h) } :
                 h \in FilterKernels }
    ELSE { BinaryOf(B, t) : t \in {t \in Thresholds : ~BinaryRaises(B, t)} }

\* C12: while a dialog is open, npImage is the array and prevPixmap the
\* pixmap of before the dialog, and no step taken with the dialog open (a
\* preview) changes them; when the dialog is accepted and an edit is
\* committed, the committed npImage is computed from that array, pixmap and
\* image show it, and prevPixmap is the pixmap of before the dialog
C12_PreviewsDoNotLeak ==
    [][ /\ dlg.name # "none" => npImage = dlg.B /\ prevPixmap = dlg.shown
        /\ dlg.name # "none" /\ dlg' = dlg
              => UNCHANGED <<npImage, prevPixmap>>
        /\ dlg.name # "none" /\ dlg'.name = "none" /\ nEdits' = nEdits + 1
              => /\ npImage' \in CommittedFrom(dlg.B)
                 /\ prevPixmap' = dlg.shown
                 /\ pixmap' = np2qimage(npImage')
                 /\ image' = pixmap' ]_vars

\* a dialog is open and shows a preview: the pixmap is no longer the one of
\* before the dialog
C12_Witness ==
    /\ dlg.name \in {"EdgeDialog", "FilterDialog", "ThresholdDialog"}
    /\ pixmap # dlg.shown
    /\ npImage = dlg.B /\ prevPixmap = dlg.shown

\* --- C13
\* array A without its black border rows and columns
WithoutFrame(A) ==
    Slice(A, FrameTop(A), Shape0(A) - FrameBottom(A),
             FrameLeft(A), Shape1(A) - FrameRight(A))

\* C13: the black-frame cut of an H x W array with a black frame makes
\* npImage the sub-array of rows top..H-bottom-1 and columns
\* left..W-right-1: W-left-right wide, H-top-bottom high, with a non-black
\* element in its first and last row and column
C13_BlackFrameCutExact ==
    [][ \A pos \in ReleasePoints :
           Click(pos) /\ HasBlackFrame(npImage) =>
              /\ npImage' = WithoutFrame(npImage)
              /\ Shape1(npImage') =
                    Shape1(npImage) - FrameLeft(npImage) - FrameRight(npImage)
              /\ Shape0(npImage') =
                    Shape0(npImage) - FrameTop(npImage) - FrameBottom(npImage)
              /\ ~BlackRow(npImage', 1)
              /\ ~BlackRow(npImage', Shape0(npImage'))
              /\ ~BlackColumn(npImage', 1)
              /\ ~BlackColumn(npImage', Shape1(npImage')) ]_vars

\* --- C14
\* array A has no black row or column at its borders
NoBlackBorder(A) ==
    /\ A.ndim # 1
    /\ FrameLeft(A) = 0 /\ FrameRight(A) = 0
    /\ FrameTop(A) = 0 /\ FrameBottom(A) = 0

\* array A is black all over
AllBlack(A) == A.ndim # 1 /\ \A r \in 1..Shape0(A) : BlackRow(A, r)

\* C14: a click after cropStart on an image without a black border row or
\* column, or on an image that is black all over, clears cropActive and
\* leaves pixmap, prevPixmap, image and npImage, and with them the item on
\* the scene and the title, as they are
C14_CutDeclinedWhenDegenerate ==
    [][ \A pos \in ReleasePoints :
           Click(pos) /\ (NoBlackBorder(npImage) \/ AllBlack(npImage)) =>
              /\ ~cropActive'
              /\ UNCHANGED <<pixmap, prevPixmap, aliased, image, npImage,
                             isAllGray, scene, curItem, windowTitle>> ]_vars

\* the left button is down after cropStart on a picture that to Binary has
\* made black all over
C14_Witness ==
    /\ cropActive /\ rubberBandActive /\ leftDown
    /\ ~IsNull(pixmap) /\ AllBlack(npImage)
    /\ windowTitle[1] = "appFileName : binary image"

\* --- C15
\* rectangles that are not both wider and higher than 5
SmallRects ==
    { [x |-> 0, y |-> 0, w |-> 0, h |-> 0],
      [x |-> 2, y |-> 1, w |-> CropMin, h |-> CropMin],
      [x |-> 0, y |-> 1, w |-> CropMin + 1, h |-> 2],
      [x |-> 1, y |-> 0, w |-> 2, h |-> CropMin + 1] }

\* rectangle rect lies inside pixmap p
Inside(rect, p) ==
    /\ rect.x >= 0 /\ rect.x + rect.w <= Width(p)
    /\ rect.y >= 0 /\ rect.y + rect.h <= Height(p)

\* C15: a release after cropStart with a rectangle wider and higher than 5
\* makes the pixmap the copy of that rectangle of the old pixmap, w x h when
\* the rectangle lies inside, stores the old pixmap in prevPixmap and
\* derives image and npImage from the new pixmap; cropEnd with any other
\* rectangle does the same whatever the rectangle is, and cropEnd while
\* cropActive is false does nothing
C15_RectangleCrop ==
    [][ /\ \A pos \in ReleasePoints :
             LET rect == BandRect(pos)
             IN ( /\ cropActive /\ rubberBandActive /\ leftDown
                  /\ rect.w > CropMin /\ rect.h > CropMin
                  /\ ReleaseAt("Left", pos) )
                => /\ prevPixmap' = pixmap
                   /\ \E miss \in MissOutcomes(Self, rect) :
                         pixmap' = CopyRect(pixmap, rect.x, rect.y,
                                            rect.w, rect.h, miss)
                   /\ Inside(rect, pixmap)
                         => Width(pixmap') = rect.w /\ Height(pixmap') = rect.h
                   /\ image' = pixmap'
                   /\ npImage' = ArrayOf(pixmap')
                   /\ curItem' # 0 /\ scene'[curItem'] = pixmap'
        /\ cropActive /\ leftDown /\ npImage.ndim # 1
             => LET cut == cropEnd(Self, BandRect(pos1), "null")
                IN \A r \in SmallRects : cropEnd(Self, r, "null") = cut
        /\ ~cropActive
             => \A pos \in ReleasePoints :
                   cropEnd(Self, BandRect(pos), "null") = Self ]_vars

\* the rectangle (0, 0, 6, 6) was cut from color.png, which it lies inside
C15_Witness ==
    /\ windowTitle[1] = "{self.appFileName} : cropped image"
    /\ prevPixmap = ColorFile
    /\ Width(pixmap) = CropMin + 1 /\ Height(pixmap) = CropMin + 1
    /\ pixmap = CopyRect(ColorFile, 0, 0, CropMin + 1, CropMin + 1, "null")

C17_OneItemOnScene ==
    /\ Len(scene) <= 1
    /\ scene # << >> => curItem = Len(scene)

\* the pointer is not over the picture P: its scene position, in half
\* pixels, is outside [0, P.width) x [0, P.height)
Outside(posScene, P) ==
    ~ /\ 0 <= posScene[1] /\ posScene[1] < 2 * Width(P)
      /\ 0 <= posScene[2] /\ posScene[2] < 2 * Height(P)

\* C18: whenever the view can get a mouse-move event, pixmap and image have
\* the same size if both are non-null; the readout reads image.pixelColor
\* only at a pixel of the image; and a move of the pointer to a position
\* outside the rectangle of the pixmap leaves the blank text in the label
C18_ReadoutInRange ==
    [][ /\ ViewIdle /\ ~IsNull(pixmap) /\ ~IsNull(image)
              => /\ Width(pixmap) = Width(image)
                 /\ Height(pixmap) = Height(image)
        /\ \A pos \in MovePoints :
              /\ ViewIdle /\ mouseMoveEvent(Self, pos).text \in {"gray", "(r,g,b)"}
                    => /\ 0 <= IntOf(pos[1]) /\ IntOf(pos[1]) < Width(image)
                       /\ 0 <= IntOf(pos[2]) /\ IntOf(pos[2]) < Height(image)
              /\ posInfo' # posInfo /\ posInfo' = mouseMoveEvent(Self, pos)
                    /\ Outside(pos, pixmap)
                    => posInfo' = BlankInfo ]_vars

\* C19: whenever an item is on the scene after an operation has completed
\* (curItem is not None), the pixmap is non-null and the item displays the
\* content of the pixmap: no camera capture and no rectangle crop leaves an
\* old image on the screen while the pixmap is null or another image
C19_ItemShowsPixmap ==
    Idle /\ curItem # 0 => ~IsNull(pixmap) /\ scene[curItem] = pixmap

=============================================================================
